---- MODULE Spec2Model ----
(***************************************************************************)
(* Model of lib/ansible/modules/packaging/os/homebrew_services.py: the     *)
(* HomebrewService class (validation, tool resolution, the sequential      *)
(* start/stop/restart loop, the result aggregation) and main().            *)
(*                                                                         *)
(* Text is a sequence of one-character strings, so that regular-expression *)
(* matching, str.strip, str.lower, str.split and %d formatting are         *)
(* computed character by character as Python computes them.               *)
(***************************************************************************)
EXTENDS Integers, Sequences, FiniteSets, TLC

\* ------------------------------------------------------------------ bounds
MaxPackages == 3
MaxPkgLen == 2

\* -------------------------------------------------------------- characters
\* The backquote character (code 96), which a TLA+ string cannot hold.
BQ == "backquote"

\* Printable ASCII, code 32 to 126, in code order.
Ascii == <<" ", "!", "\"", "#", "$", "%", "&", "'", "(", ")", "*", "+", ",", "-", ".", "/",
           "0", "1", "2", "3", "4", "5", "6", "7", "8", "9", ":", ";", "<", "=", ">", "?",
           "@", "A", "B", "C", "D", "E", "F", "G", "H", "I", "J", "K", "L", "M", "N", "O",
           "P", "Q", "R", "S", "T", "U", "V", "W", "X", "Y", "Z", "[", "\\", "]", "^", "_",
           BQ, "a", "b", "c", "d", "e", "f", "g", "h", "i", "j", "k", "l", "m", "n", "o",
           "p", "q", "r", "s", "t", "u", "v", "w", "x", "y", "z", "{", "|", "}", "~">>

\* ord(c)
Ord(c) ==
    IF c = "\t" THEN 9
    ELSE IF c = "\n" THEN 10
    ELSE 31 + (CHOOSE k \in 1..95 : Ascii[k] = c)

\* Python's None, distinct from every text (texts hold one-character strings).
None == <<"None">>

RECURSIVE Join(_)
\* ''.join(parts)
Join(parts) ==
    IF parts = <<>> THEN <<>> ELSE Head(parts) \o Join(Tail(parts))

\* ----------------------------------------------------- regular expressions
\* \w on ASCII text: [a-zA-Z0-9_]
IsWord(c) ==
    \/ Ord(c) \in 48..57
    \/ Ord(c) \in 65..90
    \/ Ord(c) \in 97..122
    \/ c = "_"

\* \s on ASCII text
SpaceChars == {" ", "\t", "\n"}

RECURSIVE ClassHas(_, _, _)
\* Does the character class with body `body`, read from position i as the
\* re module reads it, list the character c?  \w and \s are sets, \x is the
\* literal x, and a literal followed by '-' and another item is a range.
ClassHas(body, i, c) ==
    IF i > Len(body) THEN FALSE
    ELSE
        LET esc  == body[i] = "\\" /\ i + 1 <= Len(body)
            n    == IF esc THEN i + 2 ELSE i + 1
            isSet == esc /\ body[i + 1] \in {"w", "s"}
            lo   == IF esc THEN body[i + 1] ELSE body[i]
            rng  == ~isSet /\ n + 1 <= Len(body) /\ body[n] = "-"
            hesc == rng /\ body[n + 1] = "\\" /\ n + 2 <= Len(body)
            hi   == IF hesc THEN body[n + 2] ELSE body[n + 1]
            m    == IF hesc THEN n + 3 ELSE n + 2
        IN  IF isSet
                THEN \/ (IF body[i + 1] = "w" THEN IsWord(c) ELSE c \in SpaceChars)
                     \/ ClassHas(body, n, c)
            ELSE IF rng
                THEN \/ (Ord(lo) <= Ord(c) /\ Ord(c) <= Ord(hi))
                     \/ ClassHas(body, m, c)
            ELSE c = lo \/ ClassHas(body, n, c)

\* regex.search(s) for the regex '[^' + body + ']': is some character of s
\* outside the class?
NegClassSearch(body, s) ==
    \E k \in 1..Len(s) : ~ClassHas(body, 1, s[k])

\* The lines of the class attributes, each reduced to what
\* _create_regex_group keeps of it (the text before '#', stripped).
VALID_PATH_CHARS == << <<"\\", "w">>, <<"\\", "s">>, <<":">>, <<"/">>, <<".">>, <<"-">> >>

VALID_BREW_PATH_CHARS == << <<"\\", "w">>, <<"\\", "s">>, <<"/">>, <<".">>, <<"-">> >>

VALID_PACKAGE_CHARS ==
    << <<"\\", "w">>, <<".">>, <<"/">>, <<"\\", "+">>, <<"-">>, <<":">>, <<"@">> >>

\* _create_regex_group(s): the body of the regex r'[^' + r''.join(chars) + r']'
_create_regex_group(lines) == Join(lines)

INVALID_PATH_REGEX == _create_regex_group(VALID_PATH_CHARS)

INVALID_BREW_PATH_REGEX == _create_regex_group(VALID_BREW_PATH_CHARS)

INVALID_PACKAGE_REGEX == _create_regex_group(VALID_PACKAGE_CHARS)

\* ------------------------------------------------------- class validations
\* valid_brew_path(brew_path)
valid_brew_path(brew_path) ==
    \/ brew_path = None
    \/ ~NegClassSearch(INVALID_BREW_PATH_REGEX, brew_path)

\* valid_path(path): path is [str |-> TRUE, val |-> text] or
\* [str |-> FALSE, val |-> list of texts]
valid_path(path) ==
    IF path.str
        THEN ~NegClassSearch(INVALID_PATH_REGEX, path.val)
        ELSE \A k \in 1..Len(path.val) : valid_brew_path(path.val[k])

\* valid_package(package)
valid_package(package) ==
    \/ package = None
    \/ ~NegClassSearch(INVALID_PACKAGE_REGEX, package)

\* str.lower() on ASCII text
Lower(s) ==
    [k \in 1..Len(s) |->
        IF Ord(s[k]) \in 65..90 THEN Ascii[Ord(s[k]) + 32 - 31] ELSE s[k]]

STARTED == <<"s", "t", "a", "r", "t", "e", "d">>

STOPPED == <<"s", "t", "o", "p", "p", "e", "d">>

RESTARTED == <<"r", "e", "s", "t", "a", "r", "t", "e", "d">>

\* valid_state(state); no statement of the module calls it
valid_state(state) ==
    \/ state = None
    \/ Lower(state) \in {STARTED, STOPPED, RESTARTED}

\* --------------------------------------------------------- text operations
\* s.strip()
Strip(s) ==
    IF \A k \in 1..Len(s) : s[k] \in SpaceChars THEN <<>>
    ELSE
        LET a == CHOOSE k \in 1..Len(s) :
                    s[k] \notin SpaceChars /\ \A q \in 1..(k - 1) : s[q] \in SpaceChars
            b == CHOOSE k \in 1..Len(s) :
                    s[k] \notin SpaceChars /\ \A q \in (k + 1)..Len(s) : s[q] \in SpaceChars
        IN  SubSeq(s, a, b)

RECURSIVE Split(_, _)
\* s.split(sep) for a one-character separator
Split(s, sep) ==
    IF \A k \in 1..Len(s) : s[k] # sep THEN <<s>>
    ELSE
        LET p == CHOOSE k \in 1..Len(s) : s[k] = sep /\ \A q \in 1..(k - 1) : s[q] # sep
        IN  <<SubSeq(s, 1, p - 1)>> \o Split(SubSeq(s, p + 1, Len(s)), sep)

RECURSIVE Dec(_)
\* '%d' % n for n >= 0
Dec(n) ==
    IF n < 10 THEN <<Ascii[n + 17]>>
    ELSE Dec(n \div 10) \o <<Ascii[(n % 10) + 17]>>

RECURSIVE Repr(_)
\* the items of repr(list of str), for texts without quotes or backslashes
Repr(l) ==
    IF l = <<>> THEN <<>>
    ELSE <<"'">> \o Head(l) \o <<"'">>
         \o (IF Len(l) > 1 THEN <<",", " ">> ELSE <<>>) \o Repr(Tail(l))

\* '{0}'.format(v) for None or a text
Format(v) ==
    IF v = None THEN <<"N", "o", "n", "e">> ELSE v

\* '{0}'.format(path) for a path value (a str or a list of str)
FormatPath(path) ==
    IF path.str THEN path.val ELSE <<"[">> \o Repr(path.val) \o <<"]">>

RECURSIVE ReMatchAt(_, _, _, _)
\* re.match from position j of s against pat from position i, for patterns
\* made of '^', '.', 'x+' and literals (what the stop pattern holds for the
\* names of Names): a match of a prefix of s is a match.
ReMatchAt(pat, i, s, j) ==
    IF i > Len(pat) THEN TRUE
    ELSE IF pat[i] = "^" THEN j = 1 /\ ReMatchAt(pat, i + 1, s, j)
    ELSE
        LET AtomOK(c) == IF pat[i] = "." THEN c # "\n" ELSE c = pat[i]
            plus == i + 1 <= Len(pat) /\ pat[i + 1] = "+"
        IN  IF plus
                THEN \E k \in 1..(Len(s) - j + 1) :
                        /\ \A q \in j..(j + k - 1) : AtomOK(s[q])
                        /\ ReMatchAt(pat, i + 2, s, j + k)
                ELSE /\ j <= Len(s)
                     /\ AtomOK(s[j])
                     /\ ReMatchAt(pat, i + 1, s, j + 1)

\* re.match(pat, s)
ReMatch(pat, s) == ReMatchAt(pat, 1, s, 1)

\* ------------------------------------------------------------ fixed texts
MsgInvalidPath == 
    <<"I", "n", "v", "a", "l", "i", "d", " ", "p", "a", "t", "h", ":", " ">>

MsgInvalidBrewPath == 
    <<"I", "n", "v", "a", "l", "i", "d", " ", "b", "r", "e", "w", "_", "p", "a", "t", "h", ":", " ">>

MsgInvalidPackage == 
    <<"I", "n", "v", "a", "l", "i", "d", " ", "p", "a", "c", "k", "a", "g", "e", ":", " ">>

MsgUnableToLocate == 
    <<"U", "n", "a", "b", "l", "e", " ", "t", "o", " ", "l", "o", "c", "a", "t", "e", " ", "h", "o", "m", "e", "b", "r", "e", "w", " ", "e", "x", "e", "c", "u", "t", "a", "b", "l", "e", ".">>

MsgWouldBeStarted == 
    <<"P", "a", "c", "k", "a", "g", "e", " ", "w", "o", "u", "l", "d", " ", "b", "e", " ", "s", "t", "a", "r", "t", "e", "d", ":", " ">>

MsgWouldBeStopped == 
    <<"P", "a", "c", "k", "a", "g", "e", " ", "w", "o", "u", "l", "d", " ", "b", "e", " ", "s", "t", "o", "p", "p", "e", "d", ":", " ">>

MsgWouldBeRestarted == 
    <<"P", "a", "c", "k", "a", "g", "e", " ", "w", "o", "u", "l", "d", " ", "b", "e", " ", "r", "e", "s", "t", "a", "r", "t", "e", "d", ":", " ">>

MsgStarted == 
    <<"P", "a", "c", "k", "a", "g", "e", " ", "s", "t", "a", "r", "t", "e", "d", ":", " ">>

MsgStopped == 
    <<"P", "a", "c", "k", "a", "g", "e", " ", "s", "t", "o", "p", "p", "e", "d", ":", " ">>

MsgAlreadyStopped == 
    <<"P", "a", "c", "k", "a", "g", "e", " ", "a", "l", "r", "e", "a", "d", "y", " ", "s", "t", "o", "p", "p", "e", "d", ":", " ">>

MsgRestarted == 
    <<"P", "a", "c", "k", "a", "g", "e", " ", "r", "e", "s", "t", "a", "r", "t", "e", "d", ":", " ">>

\* the pattern of _stop_current_package for the current package
StopMatch(package) ==
    <<"^", "E", "r", "r", "o", "r", ":", " ", "S", "e", "r", "v", "i", "c", "e", " ", BQ>> \o Format(package) \o <<BQ, " ", "i", "s", " ", "n", "o", "t", " ", "s", "t", "a", "r", "t", "e", "d", ".">>

\* "Changed: %d, Unchanged: %d" % (c, u)
Summary(c, u) ==
    <<"C", "h", "a", "n", "g", "e", "d", ":", " ">> \o Dec(c) \o <<",", " ", "U", "n", "c", "h", "a", "n", "g", "e", "d", ":", " ">> \o Dec(u)

SERVICES == <<"s", "e", "r", "v", "i", "c", "e", "s">>

\* the option '--{0}'.format(install_option) of main
DashDash(o) == <<"-", "-">> \o Format(o)

\* [opt for opt in opts if opt]
Truthy(opts) == SelectSeq(opts, LAMBDA o : o # <<>> /\ o # None)

\* ----------------------------------------------------------------- inputs
\* service names: plain, a regex wildcard, a regex quantifier, a malformed one
Names == { <<"a">>, <<".">>, <<"+">>, <<"!">> }

RECURSIVE ListsUpTo(_, _)
\* the lists of at most n elements of S
ListsUpTo(S, n) ==
    IF n = 0 THEN {<<>>}
    ELSE LET shorter == ListsUpTo(S, n - 1)
         IN  shorter \cup {Append(l, x) : l \in shorter, x \in S}

PackageLists == ListsUpTo(Names, MaxPackages)

\* the colon-separated search path: two good directories, or a bad one
PathInputs == { <<"/", "b", ":", "/", "c">>, <<"/", "b", ":", "/", "!">> }

StateInputs ==
    { STARTED, STOPPED, RESTARTED,
      <<"S", "t", "a", "r", "t", "e", "d">>,
      <<"a", "b", "s", "e", "n", "t">> }

OptionInputs == { <<>>, << <<"v">> >> }

\* what module.get_bin_path('brew', required=True, opt_dirs) does in the
\* environment of the run: it returns a path, returns nothing, or ends the
\* process itself with fail_json
BinInputs ==
    { [path |-> <<"/", "b", "/", "b", "r", "e", "w">>, exits |-> FALSE],
      [path |-> <<"/", "b", "+", "/", "b", "r", "e", "w">>, exits |-> FALSE],
      [path |-> None, exits |-> FALSE],
      [path |-> None, exits |-> TRUE] }

\* the diagnostic brew prints when asked to stop a service that is not started
Diag(name) ==
    <<"E", "r", "r", "o", "r", ":", " ", "S", "e", "r", "v", "i", "c", "e", " ", BQ>>
    \o name \o
    <<BQ, " ", "i", "s", " ", "n", "o", "t", " ", "s", "t", "a", "r", "t", "e", "d", ".">>

Boom == <<"E", "r", "r", "o", "r", ":", " ", "b", "o", "o", "m", "\n">>

\* the error streams a command for `package` may produce: nothing, the stop
\* diagnostic for it or for the service a, another error, a bare line break
ErrStreams(package) == { <<>>, Diag(package), Diag(<<"a">>), Boom, <<"\n">> }

\* ------------------------------------------------------------------ state
VARIABLES
    caller,           \* "main": run as a module; "direct": the class is used by other code
    args,             \* main's params, then the arguments of HomebrewService(...)
    check_mode,       \* module.check_mode
    bin,              \* the outcome of get_bin_path in this environment
    pc,               \* where the control is
    failed, changed, changed_count, unchanged_count, message,   \* status vars
    path, brew_path, packages, state, service_options,          \* instance vars
    current_package,
    i,                \* the position of the loop over self.packages
    commands,         \* the run_command calls made so far, with their error streams
    ret,              \* what run() returned, <<>> before
    result            \* how the caller ends

vars == <<caller, args, check_mode, bin, pc, failed, changed, changed_count,
          unchanged_count, message, path, brew_path, packages, state,
          service_options, current_package, i, commands, ret, result>>

status == <<failed, changed, changed_count, unchanged_count, message>>

instance == <<path, brew_path, packages, state, service_options>>

NoResult == [kind |-> "none", changed |-> FALSE, msg |-> <<>>]

Init ==
    /\ caller \in {"main", "direct"}
    /\ args \in [packages : PackageLists,
                 path : [str : {TRUE}, val : PathInputs],
                 state : StateInputs,
                 service_options : OptionInputs]
    /\ check_mode \in BOOLEAN
    /\ bin \in BinInputs
    /\ pc = IF caller = "main" THEN "main" ELSE "init"
    /\ failed = FALSE
    /\ changed = FALSE
    /\ changed_count = 0
    /\ unchanged_count = 0
    /\ message = <<>>
    /\ path = None
    /\ brew_path = None
    /\ packages = None
    /\ state = None
    /\ service_options = None
    /\ current_package = None
    /\ i = 0
    /\ commands = <<>>
    /\ ret = <<>>
    /\ result = NoResult

\* ------------------------------------------------------------------- main
\* the message of AnsibleModule when `state` is not one of the choices
MsgChoices == <<"s", "t", "a", "t", "e">>

\* main(), up to the construction of HomebrewService: AnsibleModule checks
\* `state` against its choices, then the params become the arguments
main_args ==
    /\ pc = "main"
    /\ IF args.state \notin {STARTED, STOPPED, RESTARTED}
         THEN /\ result' = [kind |-> "fail_json", changed |-> FALSE, msg |-> MsgChoices]
              /\ pc' = "done"
              /\ args' = args
         ELSE /\ args' =
                   [packages |-> IF args.packages # <<>> THEN args.packages ELSE None,
                    path |-> IF args.path.val # <<>>
                                THEN [str |-> FALSE, val |-> Split(args.path.val, ":")]
                                ELSE args.path,
                    state |-> args.state,
                    service_options |->
                        [k \in 1..Len(args.service_options) |->
                            DashDash(args.service_options[k])]]
              /\ pc' = "init"
              /\ result' = result
    /\ UNCHANGED <<caller, check_mode, bin, status, instance, current_package,
                   i, commands, ret>>

\* --------------------------------------------------------------- __init__
\* the path setter: the value it leaves in self._path ([] when it raises)
path_setter(p) ==
    IF ~valid_path(p) THEN <<>>
    ELSE IF p.str THEN Split(p.val, ":") ELSE p.val

\* __init__ with _prep_brew_path not raising when get_bin_path returns nothing
__init___NoRaiseWhenNotFound ==
    /\ pc = "init"
    /\ changed' = FALSE
    /\ changed_count' = 0
    /\ unchanged_count' = 0
    /\ path' = path_setter(args.path)
    /\ IF ~valid_path(args.path)
         THEN \* path setter raises; the later keyword arguments are never set
              /\ failed' = TRUE
              /\ message' = MsgInvalidPath \o FormatPath(args.path) \o <<".">>
              /\ UNCHANGED <<packages, state, service_options, brew_path>>
              /\ result' = [kind |-> "exception", changed |-> FALSE, msg |-> message']
              /\ pc' = "done"
         ELSE /\ packages' = args.packages
              /\ state' = args.state
              /\ service_options' = args.service_options
              /\ IF bin.exits
                   THEN \* get_bin_path(required=True) reports the failure itself
                        /\ failed' = FALSE
                        /\ message' = <<>>
                        /\ brew_path' = brew_path
                        /\ result' = [kind |-> "fail_json", changed |-> FALSE,
                                      msg |-> MsgUnableToLocate]
                        /\ pc' = "done"
                   ELSE IF ~valid_brew_path(bin.path)
                   THEN /\ failed' = TRUE
                        /\ message' = MsgInvalidBrewPath \o Format(bin.path) \o <<".">>
                        /\ brew_path' = None
                        /\ result' = [kind |-> "exception", changed |-> FALSE,
                                      msg |-> message']
                        /\ pc' = "done"
                   ELSE IF bin.path = None
                   THEN /\ failed' = FALSE
                        /\ message' = <<>>
                        /\ brew_path' = None
                        /\ result' = result
                        /\ pc' = "run"
                   ELSE /\ failed' = FALSE
                        /\ message' = <<>>
                        /\ brew_path' = bin.path
                        /\ result' = result
                        /\ pc' = "run"
    /\ UNCHANGED <<caller, args, check_mode, bin, current_package, i, commands, ret>>

\* HomebrewService(module, path, packages, state, service_options):
\* _setup_status_vars, _setup_instance_vars (the path setter may raise),
\* _prep_brew_path (get_bin_path, the brew_path setter may raise). An
\* exception leaves the constructor: neither caller catches it.
__init__ ==
    /\ pc = "init"
    /\ changed' = FALSE
    /\ changed_count' = 0
    /\ unchanged_count' = 0
    /\ path' = path_setter(args.path)
    /\ IF ~valid_path(args.path)
         THEN \* path setter raises; the later keyword arguments are never set
              /\ failed' = TRUE
              /\ message' = MsgInvalidPath \o FormatPath(args.path) \o <<".">>
              /\ UNCHANGED <<packages, state, service_options, brew_path>>
              /\ result' = [kind |-> "exception", changed |-> FALSE, msg |-> message']
              /\ pc' = "done"
         ELSE /\ packages' = args.packages
              /\ state' = args.state
              /\ service_options' = args.service_options
              /\ IF bin.exits
                   THEN \* get_bin_path(required=True) reports the failure itself
                        /\ failed' = FALSE
                        /\ message' = <<>>
                        /\ brew_path' = brew_path
                        /\ result' = [kind |-> "fail_json", changed |-> FALSE,
                                      msg |-> MsgUnableToLocate]
                        /\ pc' = "done"
                   ELSE IF ~valid_brew_path(bin.path)
                   THEN /\ failed' = TRUE
                        /\ message' = MsgInvalidBrewPath \o Format(bin.path) \o <<".">>
                        /\ brew_path' = None
                        /\ result' = [kind |-> "exception", changed |-> FALSE,
                                      msg |-> message']
                        /\ pc' = "done"
                   ELSE IF bin.path = None
                   THEN /\ failed' = TRUE
                        /\ message' = MsgUnableToLocate
                        /\ brew_path' = None
                        /\ result' = [kind |-> "exception", changed |-> FALSE,
                                      msg |-> message']
                        /\ pc' = "done"
                   ELSE /\ failed' = FALSE
                        /\ message' = <<>>
                        /\ brew_path' = bin.path
                        /\ result' = result
                        /\ pc' = "run"
    /\ UNCHANGED <<caller, args, check_mode, bin, current_package, i, commands, ret>>

\* -------------------------------------------------------------------- run
START == <<"s", "t", "a", "r", "t">>

STOP == <<"s", "t", "o", "p">>

RESTART == <<"r", "e", "s", "t", "a", "r", "t">>

\* run() calls _run(), which picks the loop of the requested state; with no
\* packages or any other state it does nothing
_run ==
    /\ pc = "run"
    /\ IF packages # None /\ packages # <<>> /\ state \in {STARTED, STOPPED, RESTARTED}
         THEN /\ i' = 1
              /\ pc' = IF state = STARTED THEN "start"
                       ELSE IF state = STOPPED THEN "stop"
                       ELSE "restart"
         ELSE /\ i' = i
              /\ pc' = "tail"
    /\ UNCHANGED <<caller, args, check_mode, bin, status, instance, current_package,
                   commands, ret, result>>

\* one turn of the loop of _start_packages: the current_package setter, then
\* _start_current_package (check mode, the command, the reading of its error
\* stream). An exception ends the loop and is swallowed by run().
_start_packages ==
    /\ pc = "start"
    /\ LET package == packages[i]
       IN  IF ~valid_package(package)
             THEN /\ current_package' = None
                  /\ failed' = TRUE
                  /\ message' = MsgInvalidPackage \o Format(package) \o <<".">>
                  /\ pc' = "tail"
                  /\ UNCHANGED <<changed, changed_count, unchanged_count, i, commands>>
           ELSE IF check_mode
             THEN /\ current_package' = package
                  /\ changed' = TRUE
                  /\ message' = MsgWouldBeStarted \o Format(package)
                  /\ pc' = "tail"
                  /\ UNCHANGED <<failed, changed_count, unchanged_count, i, commands>>
           ELSE \E err \in ErrStreams(package) :
                  /\ current_package' = package
                  /\ commands' = Append(commands,
                        [cmd |-> Truthy(<<brew_path, SERVICES, START>>
                                        \o service_options \o <<package>>),
                         package |-> package,
                         err |-> err])
                  /\ IF err = <<>>
                       THEN /\ changed_count' = changed_count + 1
                            /\ changed' = changed
                            /\ message' = MsgStarted \o Format(package)
                            /\ UNCHANGED <<failed, unchanged_count>>
                            /\ IF i < Len(packages)
                                 THEN i' = i + 1 /\ pc' = pc
                                 ELSE i' = i /\ pc' = "tail"
                       ELSE /\ failed' = TRUE
                            /\ message' = Strip(err)
                            /\ pc' = "tail"
                            /\ UNCHANGED <<changed, changed_count, unchanged_count, i>>
    /\ UNCHANGED <<caller, args, check_mode, bin, instance, ret, result>>

\* _stop_packages with the check-mode test of _stop_current_package left out
_stop_packages_NoCheckMode ==
    /\ pc = "stop"
    /\ LET package == packages[i]
       IN  IF ~valid_package(package)
             THEN /\ current_package' = None
                  /\ failed' = TRUE
                  /\ message' = MsgInvalidPackage \o Format(package) \o <<".">>
                  /\ pc' = "tail"
                  /\ UNCHANGED <<changed, changed_count, unchanged_count, i, commands>>
           ELSE IF FALSE
             THEN /\ current_package' = package
                  /\ changed' = TRUE
                  /\ message' = MsgWouldBeStopped \o Format(package)
                  /\ pc' = "tail"
                  /\ UNCHANGED <<failed, changed_count, unchanged_count, i, commands>>
           ELSE \E err \in ErrStreams(package) :
                  /\ current_package' = package
                  /\ commands' = Append(commands,
                        [cmd |-> Truthy(<<brew_path, SERVICES, STOP>>
                                        \o service_options \o <<package>>),
                         package |-> package,
                         err |-> err])
                  /\ IF err = <<>>
                       THEN /\ changed_count' = changed_count + 1
                            /\ changed' = TRUE
                            /\ message' = MsgStopped \o Format(package)
                            /\ UNCHANGED <<failed, unchanged_count>>
                            /\ IF i < Len(packages)
                                 THEN i' = i + 1 /\ pc' = pc
                                 ELSE i' = i /\ pc' = "tail"
                     ELSE IF ReMatch(StopMatch(package), err)
                       THEN /\ unchanged_count' = unchanged_count + 1
                            /\ changed' = FALSE
                            /\ message' = MsgAlreadyStopped \o Format(package)
                            /\ UNCHANGED <<failed, changed_count>>
                            /\ IF i < Len(packages)
                                 THEN i' = i + 1 /\ pc' = pc
                                 ELSE i' = i /\ pc' = "tail"
                       ELSE /\ failed' = TRUE
                            /\ message' = Strip(err)
                            /\ pc' = "tail"
                            /\ UNCHANGED <<changed, changed_count, unchanged_count, i>>
    /\ UNCHANGED <<caller, args, check_mode, bin, instance, ret, result>>

\* one turn of the loop of _stop_packages: the current_package setter, then
\* _stop_current_package (check mode, the command, the reading of its error
\* stream). An exception ends the loop and is swallowed by run().
_stop_packages ==
    /\ pc = "stop"
    /\ LET package == packages[i]
       IN  IF ~valid_package(package)
             THEN /\ current_package' = None
                  /\ failed' = TRUE
                  /\ message' = MsgInvalidPackage \o Format(package) \o <<".">>
                  /\ pc' = "tail"
                  /\ UNCHANGED <<changed, changed_count, unchanged_count, i, commands>>
           ELSE IF check_mode
             THEN /\ current_package' = package
                  /\ changed' = TRUE
                  /\ message' = MsgWouldBeStopped \o Format(package)
                  /\ pc' = "tail"
                  /\ UNCHANGED <<failed, changed_count, unchanged_count, i, commands>>
           ELSE \E err \in ErrStreams(package) :
                  /\ current_package' = package
                  /\ commands' = Append(commands,
                        [cmd |-> Truthy(<<brew_path, SERVICES, STOP>>
                                        \o service_options \o <<package>>),
                         package |-> package,
                         err |-> err])
                  /\ IF err = <<>>
                       THEN /\ changed_count' = changed_count + 1
                            /\ changed' = TRUE
                            /\ message' = MsgStopped \o Format(package)
                            /\ UNCHANGED <<failed, unchanged_count>>
                            /\ IF i < Len(packages)
                                 THEN i' = i + 1 /\ pc' = pc
                                 ELSE i' = i /\ pc' = "tail"
                     ELSE IF ReMatch(StopMatch(package), err)
                       THEN /\ unchanged_count' = unchanged_count + 1
                            /\ changed' = FALSE
                            /\ message' = MsgAlreadyStopped \o Format(package)
                            /\ UNCHANGED <<failed, changed_count>>
                            /\ IF i < Len(packages)
                                 THEN i' = i + 1 /\ pc' = pc
                                 ELSE i' = i /\ pc' = "tail"
                       ELSE /\ failed' = TRUE
                            /\ message' = Strip(err)
                            /\ pc' = "tail"
                            /\ UNCHANGED <<changed, changed_count, unchanged_count, i>>
    /\ UNCHANGED <<caller, args, check_mode, bin, instance, ret, result>>

\* _restart_packages with a failed command not ending the loop
_restart_packages_GoesOnAfterFailure ==
    /\ pc = "restart"
    /\ LET package == packages[i]
       IN  IF ~valid_package(package)
             THEN /\ current_package' = None
                  /\ failed' = TRUE
                  /\ message' = MsgInvalidPackage \o Format(package) \o <<".">>
                  /\ pc' = "tail"
                  /\ UNCHANGED <<changed, changed_count, unchanged_count, i, commands>>
           ELSE IF check_mode
             THEN /\ current_package' = package
                  /\ changed' = TRUE
                  /\ message' = MsgWouldBeRestarted \o Format(package)
                  /\ pc' = "tail"
                  /\ UNCHANGED <<failed, changed_count, unchanged_count, i, commands>>
           ELSE \E err \in ErrStreams(package) :
                  /\ current_package' = package
                  /\ commands' = Append(commands,
                        [cmd |-> Truthy(<<brew_path, SERVICES, RESTART>>
                                        \o service_options \o <<package>>),
                         package |-> package,
                         err |-> err])
                  /\ IF err = <<>>
                       THEN /\ changed_count' = changed_count + 1
                            /\ changed' = TRUE
                            /\ message' = MsgRestarted \o Format(package)
                            /\ UNCHANGED <<failed, unchanged_count>>
                            /\ IF i < Len(packages)
                                 THEN i' = i + 1 /\ pc' = pc
                                 ELSE i' = i /\ pc' = "tail"
                       ELSE /\ failed' = TRUE
                            /\ message' = Strip(err)
                            /\ UNCHANGED <<changed, changed_count, unchanged_count>>
                            /\ IF i < Len(packages)
                                 THEN i' = i + 1 /\ pc' = pc
                                 ELSE i' = i /\ pc' = "tail"
    /\ UNCHANGED <<caller, args, check_mode, bin, instance, ret, result>>

\* one turn of the loop of _restart_packages: the current_package setter, then
\* _restart_current_package (check mode, the command, the reading of its error
\* stream). An exception ends the loop and is swallowed by run().
_restart_packages ==
    /\ pc = "restart"
    /\ LET package == packages[i]
       IN  IF ~valid_package(package)
             THEN /\ current_package' = None
                  /\ failed' = TRUE
                  /\ message' = MsgInvalidPackage \o Format(package) \o <<".">>
                  /\ pc' = "tail"
                  /\ UNCHANGED <<changed, changed_count, unchanged_count, i, commands>>
           ELSE IF check_mode
             THEN /\ current_package' = package
                  /\ changed' = TRUE
                  /\ message' = MsgWouldBeRestarted \o Format(package)
                  /\ pc' = "tail"
                  /\ UNCHANGED <<failed, changed_count, unchanged_count, i, commands>>
           ELSE \E err \in ErrStreams(package) :
                  /\ current_package' = package
                  /\ commands' = Append(commands,
                        [cmd |-> Truthy(<<brew_path, SERVICES, RESTART>>
                                        \o service_options \o <<package>>),
                         package |-> package,
                         err |-> err])
                  /\ IF err = <<>>
                       THEN /\ changed_count' = changed_count + 1
                            /\ changed' = TRUE
                            /\ message' = MsgRestarted \o Format(package)
                            /\ UNCHANGED <<failed, unchanged_count>>
                            /\ IF i < Len(packages)
                                 THEN i' = i + 1 /\ pc' = pc
                                 ELSE i' = i /\ pc' = "tail"
                       ELSE /\ failed' = TRUE
                            /\ message' = Strip(err)
                            /\ pc' = "tail"
                            /\ UNCHANGED <<changed, changed_count, unchanged_count, i>>
    /\ UNCHANGED <<caller, args, check_mode, bin, instance, ret, result>>

\* run() with the summary written whether or not the run failed
run_SummaryEvenWhenFailed ==
    /\ pc = "tail"
    /\ message' = IF changed_count + unchanged_count > 1
                    THEN Summary(changed_count, unchanged_count)
                    ELSE message
    /\ ret' = <<failed, changed, message'>>
    /\ IF caller = "main"
         THEN pc' = "report" /\ result' = result
         ELSE pc' = "done" /\ result' = [kind |-> "returned", changed |-> changed,
                                         msg |-> message']
    /\ UNCHANGED <<caller, args, check_mode, bin, failed, changed, changed_count,
                   unchanged_count, instance, current_package, i, commands>>

\* run() with the summary written from one counted service on
run_SummaryFromOne ==
    /\ pc = "tail"
    /\ message' = IF ~failed /\ changed_count + unchanged_count >= 1
                    THEN Summary(changed_count, unchanged_count)
                    ELSE message
    /\ ret' = <<failed, changed, message'>>
    /\ IF caller = "main"
         THEN pc' = "report" /\ result' = result
         ELSE pc' = "done" /\ result' = [kind |-> "returned", changed |-> changed,
                                         msg |-> message']
    /\ UNCHANGED <<caller, args, check_mode, bin, failed, changed, changed_count,
                   unchanged_count, instance, current_package, i, commands>>

\* the end of run(): the summary replaces the message when more than one
\* service was counted, and the status is returned
run ==
    /\ pc = "tail"
    /\ message' = IF ~failed /\ changed_count + unchanged_count > 1
                    THEN Summary(changed_count, unchanged_count)
                    ELSE message
    /\ ret' = <<failed, changed, message'>>
    /\ IF caller = "main"
         THEN pc' = "report" /\ result' = result
         ELSE pc' = "done" /\ result' = [kind |-> "returned", changed |-> changed,
                                         msg |-> message']
    /\ UNCHANGED <<caller, args, check_mode, bin, failed, changed, changed_count,
                   unchanged_count, instance, current_package, i, commands>>

\* the end of main(): fail_json or exit_json
main_report ==
    /\ pc = "report"
    /\ result' = IF ret[1]
                   THEN [kind |-> "fail_json", changed |-> FALSE, msg |-> ret[3]]
                   ELSE [kind |-> "exit_json", changed |-> ret[2], msg |-> ret[3]]
    /\ pc' = "done"
    /\ UNCHANGED <<caller, args, check_mode, bin, status, instance, current_package,
                   i, commands, ret>>

Next ==
    \/ main_args
    \/ __init__
    \/ _run
    \/ _start_packages
    \/ _stop_packages
    \/ _restart_packages
    \/ run
    \/ main_report

Spec == Init /\ [][Next]_vars

\* ---------------------------------------- valid_package as a pure function
\* characters inside and outside the documented set
PkgChars == {"a", "Z", "0", "_", ".", "/", "+", "-", ":", "@", ",", " ", "!", "*"}

PkgInputs == ListsUpTo(PkgChars, MaxPkgLen)

\* args holds the argument of valid_package, ret its result once called
InitPkg ==
    /\ caller = "direct"
    /\ args \in PkgInputs
    /\ check_mode = FALSE
    /\ bin = [path |-> None, exits |-> FALSE]
    /\ pc = "valid_package"
    /\ failed = FALSE
    /\ changed = FALSE
    /\ changed_count = 0
    /\ unchanged_count = 0
    /\ message = <<>>
    /\ path = None
    /\ brew_path = None
    /\ packages = None
    /\ state = None
    /\ service_options = None
    /\ current_package = None
    /\ i = 0
    /\ commands = <<>>
    /\ ret = <<>>
    /\ result = NoResult

call_valid_package ==
    /\ pc = "valid_package"
    /\ ret' = <<valid_package(args)>>
    /\ pc' = "validated"
    /\ UNCHANGED <<caller, args, check_mode, bin, status, instance, current_package,
                   i, commands, result>>

NextPkg == call_valid_package

SpecPkg == InitPkg /\ [][NextPkg]_vars

\* ================================================================= claims
\* the character set the documentation gives for service names
AllowedChar(c) == IsWord(c) \/ c \in {".", "/", "+", "-", ":", "@"}

AllowedName(n) == n # <<>> /\ \A k \in 1..Len(n) : AllowedChar(n[k])

Returned == ret # <<>>

Live == ~check_mode

HasPackages == packages # None /\ packages # <<>>

Transitions == {STARTED, STOPPED, RESTARTED}

\* C1: in a live run, the returned `changed` flag is true if and only if at
\* least one service transitioned (changed_count >= 1).
C1_ChangedIffTransitioned ==
    (Returned /\ Live) => (ret[2] <=> changed_count >= 1)

\* C2: a malformed service name anywhere in the list makes a live run end
\* failed with no command executed at all.
C2_MalformedNameBeforeAnyCommand ==
    (/\ Returned
     /\ Live
     /\ state \in Transitions
     /\ HasPackages
     /\ \E k \in 1..Len(packages) : ~AllowedName(packages[k]))
    => (ret[1] /\ commands = <<>>)

\* the error stream of a command is one the run reads as failure: not empty,
\* and not the stop diagnostic of its package
Unrecognized(c) ==
    /\ c.err # <<>>
    /\ ~(state = STOPPED /\ ReMatch(StopMatch(c.package), c.err))

\* C3: fail-fast. Once the command of a service returned a non-empty error
\* stream that is not the recognized stop no-op, it stays the last command,
\* the run is failed, and the message, also the returned one, is that error
\* text stripped, never the summary.
C3_FailFast ==
    \A k \in 1..Len(commands) :
        Unrecognized(commands[k]) =>
            /\ k = Len(commands)
            /\ failed
            /\ message = Strip(commands[k].err)
            /\ Returned => ret = <<TRUE, changed, Strip(commands[k].err)>>
            /\ result.kind \notin {"exit_json", "exception"}
            /\ result.kind \in {"fail_json", "returned"}
                   => result.msg = Strip(commands[k].err)

\* three services, the first succeeded, the second failed, the run returned
C3_Witness ==
    /\ Returned
    /\ Len(packages) = 3
    /\ Len(commands) = 2
    /\ commands[1].err = <<>>
    /\ commands[2].err = Boom
    /\ ret[3] = <<"E", "r", "r", "o", "r", ":", " ", "b", "o", "o", "m">>

\* the text that says what would be done in check mode
WouldBe(st) ==
    IF st = STARTED THEN <<"P", "a", "c", "k", "a", "g", "e", " ", "w", "o", "u", "l", "d", " ", "b", "e", " ", "s", "t", "a", "r", "t", "e", "d", ":", " ">>
    ELSE IF st = STOPPED THEN <<"P", "a", "c", "k", "a", "g", "e", " ", "w", "o", "u", "l", "d", " ", "b", "e", " ", "s", "t", "o", "p", "p", "e", "d", ":", " ">>
    ELSE <<"P", "a", "c", "k", "a", "g", "e", " ", "w", "o", "u", "l", "d", " ", "b", "e", " ", "r", "e", "s", "t", "a", "r", "t", "e", "d", ":", " ">>

\* C5: a check-mode run over a non-empty list of valid names, for any of the
\* three states, runs no command, returns failed=false and changed=true,
\* leaves both counters at 0 and says what "would be" done.
C5_DryRun ==
    (/\ Returned
     /\ check_mode
     /\ HasPackages
     /\ state \in Transitions
     /\ \A k \in 1..Len(packages) : AllowedName(packages[k]))
    => /\ commands = <<>>
       /\ ret[1] = FALSE
       /\ ret[2] = TRUE
       /\ changed_count = 0
       /\ unchanged_count = 0
       /\ ret[3] = WouldBe(state) \o packages[1]

\* a check-mode stop of two valid services has returned
C5_Witness ==
    /\ Returned
    /\ check_mode
    /\ state = STOPPED
    /\ HasPackages
    /\ Len(packages) = 2
    /\ \A k \in 1..Len(packages) : AllowedName(packages[k])
    /\ ret[2] = TRUE

\* C6: a run whose state is none of started, stopped, restarted (whatever the
\* letter case) returns failed with a message and runs no command; a
\* letter-case variant of the three drives its transition: in a live run
\* whose first service name is valid, a command is issued.
C6_StateValidation ==
    (Returned /\ HasPackages)
    => IF Lower(state) \notin Transitions
         THEN ret[1] /\ ret[3] # <<>> /\ commands = <<>>
         ELSE (Live /\ AllowedName(packages[1])) => commands # <<>>

\* brew was not found
NotFound == bin.path = None

\* C7 (state part): when brew is not found no command is ever issued, the
\* counters stay 0 and the request does not end in success; a command is only
\* ever issued with the resolved path.
C7_NoServiceWithoutTool ==
    /\ (NotFound /\ args.packages # <<>>)
          => /\ commands = <<>>
             /\ changed_count = 0
             /\ unchanged_count = 0
             /\ ~Returned
             /\ pc = "done" =>
                   \/ result.kind = "fail_json"
                   \/ result.kind = "exception" /\ failed
    /\ \A k \in 1..Len(commands) :
          brew_path # None /\ commands[k].cmd[1] = brew_path

\* C7 (step part): after the constructor the resolved path never changes.
C7_ResolvedOnce ==
    pc \notin {"main", "init"} => brew_path' = brew_path

\* C7: tool resolution is a fatal precondition and the path is resolved once.
C7_ToolResolution ==
    [](C7_NoServiceWithoutTool) /\ [][C7_ResolvedOnce]_vars

\* brew was not found for a request with services, and the request has ended
C7_Witness ==
    /\ pc = "done"
    /\ NotFound
    /\ ~bin.exits
    /\ args.packages # None
    /\ Len(args.packages) = 2
    /\ result.kind = "exception"

\* the message of one service whose command did not fail
ServiceMsg(c) ==
    IF state = STARTED THEN <<"P", "a", "c", "k", "a", "g", "e", " ", "s", "t", "a", "r", "t", "e", "d", ":", " ">> \o c.package
    ELSE IF state = RESTARTED THEN <<"P", "a", "c", "k", "a", "g", "e", " ", "r", "e", "s", "t", "a", "r", "t", "e", "d", ":", " ">> \o c.package
    ELSE IF c.err = <<>> THEN <<"P", "a", "c", "k", "a", "g", "e", " ", "s", "t", "o", "p", "p", "e", "d", ":", " ">> \o c.package
    ELSE <<"P", "a", "c", "k", "a", "g", "e", " ", "a", "l", "r", "e", "a", "d", "y", " ", "s", "t", "o", "p", "p", "e", "d", ":", " ">> \o c.package

\* C8: a live run whose n services all completed without failure returns,
\* for n > 1, exactly "Changed: <changed_count>, Unchanged: <unchanged_count>"
\* with the two counts adding up to n, and for n = 1 the message of the
\* service.
C8_SummaryMessage ==
    (/\ Returned
     /\ Live
     /\ ~ret[1]
     /\ HasPackages
     /\ Len(commands) = Len(packages))
    => IF Len(packages) > 1
         THEN /\ changed_count + unchanged_count = Len(packages)
              /\ ret[3] = <<"C", "h", "a", "n", "g", "e", "d", ":", " ">> \o Dec(changed_count)
                          \o <<",", " ", "U", "n", "c", "h", "a", "n", "g", "e", "d", ":", " ">> \o Dec(unchanged_count)
         ELSE ret[3] = ServiceMsg(commands[1])

\* three successful starts have returned "Changed: 3, Unchanged: 0"
C8_Witness ==
    /\ Returned
    /\ Live
    /\ state = STARTED
    /\ Len(packages) = 3
    /\ Len(commands) = 3
    /\ ret[3] = <<"C", "h", "a", "n", "g", "e", "d", ":", " ", "3", ",", " ", "U", "n", "c", "h", "a", "n", "g", "e", "d", ":", " ", "0">>

\* one successful live start has returned its own message
C8_WitnessOne ==
    /\ Returned
    /\ Live
    /\ state = STARTED
    /\ HasPackages
    /\ packages = << <<"a">> >>
    /\ ret[3] = <<"P", "a", "c", "k", "a", "g", "e", " ", "s", "t", "a", "r", "t", "e", "d", ":", " ", "a">>

\* C9: a live stop of the single valid service N whose error stream is exactly
\* the diagnostic for N is an unchanged success with message "Package already
\* stopped: N"; any other non-empty error stream fails it; start and restart
\* fail on any non-empty error stream.
C9_StopNoOp ==
    (/\ Returned
     /\ Live
     /\ HasPackages
     /\ Len(packages) = 1
     /\ AllowedName(packages[1])
     /\ Len(commands) = 1)
    => LET N == packages[1]
           err == commands[1].err
       IN  IF state = STOPPED
             THEN /\ err = Diag(N) =>
                        /\ ret = <<FALSE, FALSE, <<"P", "a", "c", "k", "a", "g", "e", " ", "a", "l", "r", "e", "a", "d", "y", " ", "s", "t", "o", "p", "p", "e", "d", ":", " ">> \o N>>
                        /\ unchanged_count = 1
                        /\ changed_count = 0
                  /\ (err # <<>> /\ err # Diag(N)) => ret[1]
             ELSE err # <<>> => ret[1]

\* C10: when main() ends after an invalid search-path directory, an invalid
\* service name or a failing command, it ends in fail_json with the message,
\* never in an uncaught exception.
C10_ErrorsReachCaller ==
    (/\ caller = "main"
     /\ pc = "done"
     /\ bin.path # None
     /\ valid_brew_path(bin.path)
     /\ failed)
    => result.kind = "fail_json" /\ result.msg = message

\* C4: valid_package accepts a string exactly when it is non-empty and made
\* only of word characters, '.', '/', '+', '-', ':' and '@'.
C4_ValidPackageExact ==
    pc = "validated" => (ret[1] <=> AllowedName(args))

\* C11 (state part): in a live run the commands issued so far are for the
\* first services of the list, in order and one each: the k-th command is for
\* the k-th service and names it last. The two counters add up to the number
\* of commands that did not fail, and to no more than the number of services.
C11_PrefixOfServices ==
    /\ commands # <<>> => (Live /\ HasPackages /\ Len(commands) <= Len(packages))
    /\ \A k \in 1..Len(commands) :
          /\ commands[k].package = packages[k]
          /\ commands[k].cmd[Len(commands[k].cmd)] = packages[k]
    /\ changed_count + unchanged_count
          = Cardinality({k \in 1..Len(commands) : ~Unrecognized(commands[k])})
    /\ HasPackages => changed_count + unchanged_count <= Len(packages)
    /\ ~HasPackages => changed_count + unchanged_count = 0

\* C11 (step part): a step issues at most one command, keeps the commands
\* already issued, never lowers a counter, and changes no counter once failed
\* is true.
C11_CountersOnlyGrow ==
    /\ Len(commands') \in {Len(commands), Len(commands) + 1}
    /\ SubSeq(commands', 1, Len(commands)) = commands
    /\ changed_count' >= changed_count
    /\ unchanged_count' >= unchanged_count
    /\ failed => /\ changed_count' = changed_count
                 /\ unchanged_count' = unchanged_count

\* C11: the sequential prefix invariant of a live run.
C11_SequentialPrefix ==
    [](C11_PrefixOfServices) /\ [][C11_CountersOnlyGrow]_vars

\* a live stop of three services has returned: two stopped, one already stopped
C11_Witness ==
    /\ Returned
    /\ Live
    /\ state = STOPPED
    /\ Len(commands) = 3
    /\ changed_count = 2
    /\ unchanged_count = 1

====
